---- MODULE Spec2Model ----
(***************************************************************************)
(* Model of simulation.py: the Order entity (fill / cancel) and the        *)
(* OrderBook (two heapq heaps of (key, timestamp, order) tuples plus the   *)
(* _orders_map lookup table, with lazy deletion).                          *)
(*                                                                         *)
(* Order objects are identified by their index in Pool (object identity,   *)
(* Python's `is`); order_id is a separate attribute, so two objects may    *)
(* share an order_id.  Heap positions are 0-based as in heapq.             *)
(***************************************************************************)
EXTENDS Integers, Sequences, FiniteSets, TLC

(* ----------------------------- bounds ---------------------------------- *)

\* fill() is called with quantity_filled in MinFillArg..MaxFillArg
MaxFillArg == 3
MinFillArg == 0 - 1

\* number of calls (on the book and on the orders) in one run
MaxCalls == 5

\* how many of them are Order.fill / Order.cancel calls made by an order's holder
MaxDirect == 1

\* number of Order.fill / Order.cancel calls in a run on the orders alone
MaxOrderCalls == 4

\* length of the sequences of fill amounts applied to a new order
MaxFillSeq == 3

\* Order(...) is called with quantity in -1..MaxQuantity and price in
\* -1..MaxPrice (0: no price given)
MaxQuantity == 2
MaxPrice == 2

(* ------------------------- values of the code -------------------------- *)

\* Python's None, as a return value (order references and prices are >= 1)
None == 0

\* symbol of the one OrderBook instance
BookSymbol == "S"

LiveStatuses == {"OPEN", "PARTIALLY_FILLED"}

(* ------------------------------ Order ---------------------------------- *)

\* Order.__init__ keeping the price given for a MARKET order
Construct_keep_price(symbol, side, order_type, quantity, price, order_id, timestamp) ==
    IF side \notin {"BUY", "SELL"} THEN [ok |-> FALSE]
    ELSE IF order_type \notin {"LIMIT", "MARKET"} THEN [ok |-> FALSE]
    ELSE IF order_type = "LIMIT" /\ (price = None \/ price <= 0) THEN [ok |-> FALSE]
    ELSE IF quantity <= 0 THEN [ok |-> FALSE]
    ELSE IF symbol = "" THEN [ok |-> FALSE]
    ELSE [ok |-> TRUE, symbol |-> symbol, side |-> side, order_type |-> order_type,
          quantity |-> quantity, price |-> price,
          order_id |-> order_id, timestamp |-> timestamp,
          filled_quantity |-> 0, status |-> "OPEN"]

\* Order.__init__: the validation and the attributes it assigns.
\* price = None (0) stands for an absent price.
Construct(symbol, side, order_type, quantity, price, order_id, timestamp) ==
    IF side \notin {"BUY", "SELL"} THEN [ok |-> FALSE]
    ELSE IF order_type \notin {"LIMIT", "MARKET"} THEN [ok |-> FALSE]
    ELSE IF order_type = "LIMIT" /\ (price = None \/ price <= 0) THEN [ok |-> FALSE]
    ELSE IF quantity <= 0 THEN [ok |-> FALSE]
    ELSE IF symbol = "" THEN [ok |-> FALSE]
    ELSE [ok |-> TRUE, symbol |-> symbol, side |-> side, order_type |-> order_type,
          quantity |-> quantity,
          price |-> IF order_type = "MARKET" THEN None ELSE price,
          order_id |-> order_id, timestamp |-> timestamp,
          filled_quantity |-> 0, status |-> "OPEN"]

\* The Order objects the callers have constructed (each a successful
\* Order.__init__ call with injected order_id and timestamp).
Pool ==
    << Construct("S", "BUY",  "LIMIT",  2, 2, "a", 1),   \* 1: earliest bid at 2, two units
       Construct("S", "BUY",  "LIMIT",  1, 2, "b", 2),   \* 2: same price, later
       Construct("S", "BUY",  "LIMIT",  1, 2, "c", 2),   \* 3: same price and timestamp as 2
       Construct("S", "BUY",  "LIMIT",  1, 3, "a", 1),   \* 4: better price, order_id of 1
       Construct("S", "SELL", "LIMIT",  2, 4, "e", 1),   \* 5: best ask, two units
       Construct("S", "SELL", "LIMIT",  1, 5, "f", 1),   \* 6: worse ask
       Construct("S", "SELL", "MARKET", 1, 9, "m", 1),   \* 7: market order, price discarded
       Construct("T", "BUY",  "LIMIT",  1, 3, "t", 1) >> \* 8: order for another symbol

Orders == 1..Len(Pool)
OrderIds == {Pool[o].order_id : o \in Orders}

VARIABLES
    status,           \* Order.status of every object
    filled_quantity,  \* Order.filled_quantity of every object
    bids,             \* OrderBook.bids: heap of <<-price, timestamp, order>>
    asks,             \* OrderBook.asks: heap of <<price, timestamp, order>>
    orders_map,       \* OrderBook._orders_map: order_id -> order (None: no such key)
    removed,          \* history: orders taken out by remove_order, not re-admitted since
    result,           \* the last call: operation, argument, return value, exception
    ncalls,           \* number of calls made so far
    ndirect           \* number of Order.fill / Order.cancel calls made so far

vars == <<status, filled_quantity, bids, asks, orders_map, removed, result, ncalls, ndirect>>

\* Order.remaining_quantity
remaining_quantity(o, fq) == Pool[o].quantity - fq

\* Order.is_filled
is_filled(o, fq) == remaining_quantity(o, fq) <= 0

\* fill without the clamp to remaining_quantity
fill_unclamped(o, fq, st, quantity_filled) ==
    IF quantity_filled <= 0 THEN [filled_quantity |-> fq, status |-> st]
    ELSE LET nf == fq + quantity_filled
         IN [filled_quantity |-> nf,
             status |-> IF is_filled(o, nf) THEN "FILLED"
                        ELSE IF nf > 0 THEN "PARTIALLY_FILLED"
                        ELSE st]

\* fill that sets no status short of FILLED
fill_no_partial(o, fq, st, quantity_filled) ==
    IF quantity_filled <= 0 THEN [filled_quantity |-> fq, status |-> st]
    ELSE LET q  == IF quantity_filled > remaining_quantity(o, fq)
                   THEN remaining_quantity(o, fq) ELSE quantity_filled
             nf == fq + q
         IN [filled_quantity |-> nf,
             status |-> IF is_filled(o, nf) THEN "FILLED" ELSE st]

\* Order.fill: the new (filled_quantity, status) of order o
fill(o, fq, st, quantity_filled) ==
    IF quantity_filled <= 0 THEN [filled_quantity |-> fq, status |-> st]
    ELSE LET q  == IF quantity_filled > remaining_quantity(o, fq)
                   THEN remaining_quantity(o, fq) ELSE quantity_filled
             nf == fq + q
         IN [filled_quantity |-> nf,
             status |-> IF is_filled(o, nf) THEN "FILLED"
                        ELSE IF nf > 0 THEN "PARTIALLY_FILLED"
                        ELSE st]

\* cancel that does not look at is_filled
cancel_filled_too(o, fq, st) ==
    IF st # "CANCELLED" THEN "CANCELLED" ELSE st

\* cancel without its guard
cancel_unguarded(o, fq, st) == "CANCELLED"

\* Order.cancel: the new status of order o
cancel(o, fq, st) ==
    IF ~is_filled(o, fq) /\ st # "CANCELLED" THEN "CANCELLED" ELSE st

(* ------------------------------ heapq ---------------------------------- *)
\* A heap is a sequence read with 0-based positions.
At(h, i) == h[i + 1]
Swap(h, i, j) == [h EXCEPT ![i + 1] = h[j + 1], ![j + 1] = h[i + 1]]

\* e1 < e2 on (key, timestamp, order) tuples, as Python compares tuples:
\* the first differing element decides; two different Order objects are
\* never equal and define no ordering, so reaching them raises TypeError.
TupleLess(e1, e2) ==
    IF e1[1] # e2[1] THEN (IF e1[1] < e2[1] THEN "lt" ELSE "ge")
    ELSE IF e1[2] # e2[2] THEN (IF e1[2] < e2[2] THEN "lt" ELSE "ge")
    ELSE IF e1[3] = e2[3] THEN "ge"
    ELSE "TypeError"

\* _heapq siftdown(heap, startpos, pos)
RECURSIVE siftdown(_, _, _)
siftdown(h, startpos, pos) ==
    IF pos <= startpos THEN [heap |-> h, exc |-> "none"]
    ELSE LET parentpos == (pos - 1) \div 2
             c == TupleLess(At(h, pos), At(h, parentpos))
         IN IF c = "TypeError" THEN [heap |-> h, exc |-> "TypeError"]
            ELSE IF c = "ge" THEN [heap |-> h, exc |-> "none"]
            ELSE siftdown(Swap(h, pos, parentpos), startpos, parentpos)

\* _heapq siftup(heap, pos): bubble the smaller child up to a leaf, then siftdown
RECURSIVE siftup_from(_, _, _)
siftup_from(h, startpos, pos) ==
    LET endpos == Len(h)
        limit  == endpos \div 2
        left   == 2 * pos + 1
    IN IF pos >= limit THEN siftdown(h, startpos, pos)
       ELSE IF left + 1 < endpos
            THEN LET c == TupleLess(At(h, left), At(h, left + 1))
                 IN IF c = "TypeError" THEN [heap |-> h, exc |-> "TypeError"]
                    ELSE LET childpos == IF c = "lt" THEN left ELSE left + 1
                         IN siftup_from(Swap(h, childpos, pos), startpos, childpos)
            ELSE siftup_from(Swap(h, left, pos), startpos, left)

siftup(h, pos) == siftup_from(h, pos, pos)

\* heapq.heappush(heap, item)
heappush(h, item) == siftdown(Append(h, item), 0, Len(h))

\* heapq.heappop(heap) on a non-empty heap; item is the popped entry when
\* no exception is raised.  When a comparison raises, the last element
\* has already replaced the top one.
heappop(h) ==
    LET n       == Len(h) - 1
        lastelt == h[Len(h)]
        rest    == SubSeq(h, 1, n)
    IN IF n = 0 THEN [heap |-> rest, item |-> lastelt, exc |-> "none"]
       ELSE LET r == siftup([rest EXCEPT ![1] = lastelt], 0)
            IN [heap |-> r.heap, item |-> h[1], exc |-> r.exc]

(* ---------------------------- OrderBook --------------------------------- *)

IsLive(o) == status[o] \in LiveStatuses

\* The dictionary maps every order_id to its order, or to None when the
\* key is absent.
\* order_id in self._orders_map
InMap(m, id) == m[id] # None

\* self._orders_map[order_id] = order
MapPut(m, id, o) == [m EXCEPT ![id] = o]

\* del self._orders_map[order_id] / self._orders_map.pop(order_id)
MapDel(m, id) == [m EXCEPT ![id] = None]

\* the outcome of a call: new book state, return value, exception, and the
\* source line of the return / raise that ended the call
Outcome(m, b, a, ret, exc, site) ==
    [map |-> m, bids |-> b, asks |-> a, ret |-> ret, exc |-> exc, site |-> site]

\* add_order accepting an order whatever its status
add_order_check_any_status(order) ==
    LET id == Pool[order].order_id IN
    IF Pool[order].symbol # BookSymbol THEN "ValueError"
    ELSE IF Pool[order].order_type # "LIMIT" THEN "not_limit"
    ELSE IF InMap(orders_map, id)
    THEN (IF orders_map[id] = order THEN "same_object" ELSE "other_object")
    ELSE "admit"

\* add_order taking every order whose order_id is known for the known one
add_order_check_by_id(order) ==
    LET id == Pool[order].order_id IN
    IF Pool[order].symbol # BookSymbol THEN "ValueError"
    ELSE IF Pool[order].order_type # "LIMIT" THEN "not_limit"
    ELSE IF status[order] \notin LiveStatuses THEN "not_live"
    ELSE IF InMap(orders_map, id) THEN "same_object"
    ELSE "admit"

\* add_order returning None on a symbol mismatch
add_order_check_symbol_returned(order) ==
    LET id == Pool[order].order_id IN
    IF Pool[order].symbol # BookSymbol THEN "not_limit"
    ELSE IF Pool[order].order_type # "LIMIT" THEN "not_limit"
    ELSE IF status[order] \notin LiveStatuses THEN "not_live"
    ELSE IF InMap(orders_map, id)
    THEN (IF orders_map[id] = order THEN "same_object" ELSE "other_object")
    ELSE "admit"

\* add_order admitting again the object the lookup table already holds
add_order_check_readmit(order) ==
    LET id == Pool[order].order_id IN
    IF Pool[order].symbol # BookSymbol THEN "ValueError"
    ELSE IF Pool[order].order_type # "LIMIT" THEN "not_limit"
    ELSE IF status[order] \notin LiveStatuses THEN "not_live"
    ELSE IF InMap(orders_map, id)
    THEN (IF orders_map[id] = order THEN "admit" ELSE "other_object")
    ELSE "admit"

\* OrderBook.add_order(order), the admission checks: which of them ends
\* the call, or "admit"
add_order_check(order) ==
    LET id == Pool[order].order_id IN
    IF Pool[order].symbol # BookSymbol THEN "ValueError"
    ELSE IF Pool[order].order_type # "LIMIT" THEN "not_limit"
    ELSE IF status[order] \notin LiveStatuses THEN "not_live"
    ELSE IF InMap(orders_map, id)
    THEN (IF orders_map[id] = order THEN "same_object" ELSE "other_object")
    ELSE "admit"

\* OrderBook.add_order(order)
add_order(order) ==
    LET id == Pool[order].order_id
        c  == add_order_check(order)
    IN
    IF c = "ValueError" THEN Outcome(orders_map, bids, asks, None, "ValueError", 133)
    ELSE IF c = "not_limit" THEN Outcome(orders_map, bids, asks, None, "none", 137)
    ELSE IF c = "not_live" THEN Outcome(orders_map, bids, asks, None, "none", 140)
    ELSE IF c = "same_object" THEN Outcome(orders_map, bids, asks, order, "none", 146)
    ELSE IF c = "other_object" THEN Outcome(orders_map, bids, asks, None, "none", 150)
    ELSE LET m == MapPut(orders_map, id, order) IN
         IF Pool[order].side = "BUY"
         THEN LET r == heappush(bids, <<0 - Pool[order].price, Pool[order].timestamp, order>>)
              IN IF r.exc # "none"
                 THEN Outcome(m, r.heap, asks, None, r.exc, 161)
                 ELSE Outcome(m, r.heap, asks, order, "none", 165)
         ELSE LET r == heappush(asks, <<Pool[order].price, Pool[order].timestamp, order>>)
              IN IF r.exc # "none"
                 THEN Outcome(m, bids, r.heap, None, r.exc, 163)
                 ELSE Outcome(m, bids, r.heap, order, "none", 165)

\* remove_order without the membership test: an unknown order_id raises
remove_order_unchecked(order_id) ==
    IF ~InMap(orders_map, order_id)
    THEN Outcome(orders_map, bids, asks, None, "KeyError", 172)
    ELSE Outcome(MapDel(orders_map, order_id), bids, asks, orders_map[order_id], "none", 184)

\* remove_order emptying the lookup table
remove_order_forget_all(order_id) ==
    IF ~InMap(orders_map, order_id)
    THEN Outcome(orders_map, bids, asks, None, "none", 172)
    ELSE Outcome([id \in OrderIds |-> None], bids, asks, orders_map[order_id], "none", 184)

\* OrderBook.remove_order(order_id); the order's cancel() is applied by the action
remove_order(order_id) ==
    IF ~InMap(orders_map, order_id)
    THEN Outcome(orders_map, bids, asks, None, "none", 172)
    ELSE Outcome(MapDel(orders_map, order_id), bids, asks, orders_map[order_id], "none", 184)

\* OrderBook.get_order(order_id)
get_order(order_id) == orders_map[order_id]

\* _clean_heap_top leaving the heap as it is
clean_heap_top_keep(heap) == [heap |-> heap, exc |-> "none"]

\* OrderBook._clean_heap_top(heap)
RECURSIVE clean_heap_top(_)
clean_heap_top(heap) ==
    IF heap # <<>> /\ status[At(heap, 0)[3]] \notin LiveStatuses
    THEN LET r == heappop(heap)
         IN IF r.exc # "none" THEN [heap |-> r.heap, exc |-> r.exc]
            ELSE clean_heap_top(r.heap)
    ELSE [heap |-> heap, exc |-> "none"]

\* OrderBook.get_best_bid()
get_best_bid ==
    LET c == clean_heap_top(bids) IN
    IF c.exc # "none" THEN Outcome(orders_map, c.heap, asks, None, c.exc, 201)
    ELSE Outcome(orders_map, c.heap, asks,
                 IF c.heap # <<>> THEN 0 - At(c.heap, 0)[1] ELSE None, "none", 202)

\* OrderBook.get_best_ask()
get_best_ask ==
    LET c == clean_heap_top(asks) IN
    IF c.exc # "none" THEN Outcome(orders_map, bids, c.heap, None, c.exc, 206)
    ELSE Outcome(orders_map, bids, c.heap,
                 IF c.heap # <<>> THEN At(c.heap, 0)[1] ELSE None, "none", 207)

\* OrderBook.pop_best_bid_order()
pop_best_bid_order ==
    LET c == clean_heap_top(bids) IN
    IF c.exc # "none" THEN Outcome(orders_map, c.heap, asks, None, c.exc, 214)
    ELSE IF c.heap = <<>> THEN Outcome(orders_map, c.heap, asks, None, "none", 216)
    ELSE LET r == heappop(c.heap) IN
         IF r.exc # "none" THEN Outcome(orders_map, r.heap, asks, None, r.exc, 218)
         ELSE LET best_bid_order == r.item[3]
                  id == Pool[best_bid_order].order_id
              IN Outcome(IF InMap(orders_map, id) THEN MapDel(orders_map, id)
                         ELSE orders_map,
                         r.heap, asks, best_bid_order, "none", 222)

\* OrderBook.pop_best_ask_order()
pop_best_ask_order ==
    LET c == clean_heap_top(asks) IN
    IF c.exc # "none" THEN Outcome(orders_map, bids, c.heap, None, c.exc, 227)
    ELSE IF c.heap = <<>> THEN Outcome(orders_map, bids, c.heap, None, "none", 229)
    ELSE LET r == heappop(c.heap) IN
         IF r.exc # "none" THEN Outcome(orders_map, bids, r.heap, None, r.exc, 231)
         ELSE LET best_ask_order == r.item[3]
                  id == Pool[best_ask_order].order_id
              IN Outcome(IF InMap(orders_map, id) THEN MapDel(orders_map, id)
                         ELSE orders_map,
                         bids, r.heap, best_ask_order, "none", 235)

(* ------------------------------ actions -------------------------------- *)

\* the record kept of the last call
Call(op, order, out) ==
    [op |-> op, order |-> order, ret |-> out.ret, exc |-> out.exc, site |-> out.site]

\* one more call on the book, within the bound of a run
Step ==
    /\ ncalls < MaxCalls
    /\ ncalls' = ncalls + 1
    /\ UNCHANGED ndirect

\* one more call on an Order by its holder
DirectStep ==
    /\ ncalls' = ncalls + 1
    /\ ndirect' = ndirect + 1

Book(out) ==
    /\ orders_map' = out.map
    /\ bids' = out.bids
    /\ asks' = out.asks

Init ==
    /\ status = [o \in Orders |-> Pool[o].status]
    /\ filled_quantity = [o \in Orders |-> Pool[o].filled_quantity]
    /\ bids = <<>>
    /\ asks = <<>>
    /\ orders_map = [id \in OrderIds |-> None]
    /\ removed = {}
    /\ result = [op |-> "init", order |-> None, ret |-> None, exc |-> "none", site |-> 126]
    /\ ncalls = 0
    /\ ndirect = 0

AddOrder(o) ==
    LET out == add_order(o) IN
    /\ Step
    /\ Book(out)
    /\ removed' = IF out.site \in {161, 163, 165} THEN removed \ {o} ELSE removed
    /\ result' = Call("add_order", o, out)
    /\ UNCHANGED <<status, filled_quantity>>

RemoveOrder(id) ==
    LET out == remove_order(id) IN
    /\ Step
    /\ Book(out)
    /\ status' = IF out.ret # None
                 THEN [status EXCEPT ![out.ret] = cancel(out.ret, filled_quantity[out.ret], @)]
                 ELSE status
    /\ removed' = IF out.ret # None THEN removed \cup {out.ret} ELSE removed
    /\ result' = Call("remove_order", out.ret, out)
    /\ UNCHANGED filled_quantity

GetOrder(id) ==
    /\ Step
    /\ result' = [op |-> "get_order", order |-> get_order(id), ret |-> get_order(id),
                  exc |-> "none", site |-> 189]
    /\ UNCHANGED <<status, filled_quantity, bids, asks, orders_map, removed>>

GetBestBid ==
    /\ Step
    /\ Book(get_best_bid)
    /\ result' = Call("get_best_bid", None, get_best_bid)
    /\ UNCHANGED <<status, filled_quantity, removed>>

GetBestAsk ==
    /\ Step
    /\ Book(get_best_ask)
    /\ result' = Call("get_best_ask", None, get_best_ask)
    /\ UNCHANGED <<status, filled_quantity, removed>>

PopBestBid ==
    /\ Step
    /\ Book(pop_best_bid_order)
    /\ result' = Call("pop_best_bid_order", pop_best_bid_order.ret, pop_best_bid_order)
    /\ UNCHANGED <<status, filled_quantity, removed>>

PopBestAsk ==
    /\ Step
    /\ Book(pop_best_ask_order)
    /\ result' = Call("pop_best_ask_order", pop_best_ask_order.ret, pop_best_ask_order)
    /\ UNCHANGED <<status, filled_quantity, removed>>

\* Order.fill(quantity_filled) called by the holder of order o
Fill(o, q) ==
    LET f == fill(o, filled_quantity[o], status[o], q) IN
    /\ DirectStep
    /\ filled_quantity' = [filled_quantity EXCEPT ![o] = f.filled_quantity]
    /\ status' = [status EXCEPT ![o] = f.status]
    /\ result' = [op |-> "fill", order |-> o, ret |-> None,
                  exc |-> "none", site |-> IF q <= 0 THEN 71 ELSE 83]
    /\ UNCHANGED <<bids, asks, orders_map, removed>>

\* Order.cancel() called by the holder of order o
Cancel(o) ==
    /\ DirectStep
    /\ status' = [status EXCEPT ![o] = cancel(o, filled_quantity[o], @)]
    /\ result' = [op |-> "cancel", order |-> o, ret |-> None,
                  exc |-> "none", site |-> 88]
    /\ UNCHANGED <<filled_quantity, bids, asks, orders_map, removed>>

BookNext ==
    \/ \E o \in Orders : AddOrder(o)
    \/ \E id \in OrderIds : RemoveOrder(id)
    \/ \E id \in OrderIds : GetOrder(id)
    \/ GetBestBid
    \/ GetBestAsk
    \/ PopBestBid
    \/ PopBestAsk

\* fill / cancel called by an order's holder while the book is in use
HolderFill(o, q) == ncalls < MaxCalls /\ ndirect < MaxDirect /\ Fill(o, q)
HolderCancel(o) == ncalls < MaxCalls /\ ndirect < MaxDirect /\ Cancel(o)

\* fill / cancel in a run on the orders alone
OrderFill(o, q) == ndirect < MaxOrderCalls /\ Fill(o, q)
OrderCancel(o) == ndirect < MaxOrderCalls /\ Cancel(o)

Next ==
    \/ BookNext
    \/ \E o \in Orders, q \in MinFillArg..MaxFillArg : HolderFill(o, q)
    \/ \E o \in Orders : HolderCancel(o)

OrderNext ==
    \/ \E o \in Orders, q \in MinFillArg..MaxFillArg : OrderFill(o, q)
    \/ \E o \in Orders : OrderCancel(o)

\* Order(symbol, side, order_type, quantity, price, order_id, timestamp):
\* the call, its arguments, and the object built or the ValueError raised
NewOrder(symbol, side, order_type, quantity, price) ==
    LET made == Construct(symbol, side, order_type, quantity, price, "n", 1) IN
    /\ result' = [op |-> "Order",
                  args |-> [symbol |-> symbol, side |-> side, order_type |-> order_type,
                            quantity |-> quantity, price |-> price],
                  ret |-> made,
                  exc |-> IF made.ok THEN "none" ELSE "ValueError"]
    /\ UNCHANGED <<status, filled_quantity, bids, asks, orders_map, removed, ncalls, ndirect>>

\* the arguments Order(...) is called with
Symbols == {"", "S", "T"}
Sides == {"BUY", "SELL", "HOLD"}
OrderTypes == {"LIMIT", "MARKET", "STOP"}
Quantities == (0 - 1)..MaxQuantity
Prices == (0 - 1)..MaxPrice

ConstructNext ==
    \E symbol \in Symbols, side \in Sides, order_type \in OrderTypes,
       quantity \in Quantities, price \in Prices :
       NewOrder(symbol, side, order_type, quantity, price)

\* every call the venue, the matching engine and the order holders can make
Spec == Init /\ [][Next]_vars

\* the construction of orders
SpecConstruct == Init /\ [][ConstructNext]_vars

\* the book driven through its own operations only
SpecBook == Init /\ [][BookNext]_vars

\* the orders alone, driven through fill and cancel
SpecOrder == Init /\ [][OrderNext]_vars

(* ------------------------ vocabulary of the claims --------------------- *)

\* the orders that have an entry in a heap
HeapOrders(h) == {h[i][3] : i \in 1..Len(h)}

\* the order is the one the lookup table holds under its order_id
InBook(o) == orders_map[Pool[o].order_id] = o

\* the live orders of one side in the lookup table
LiveInBook(side) == {o \in Orders : Pool[o].side = side /\ InBook(o) /\ IsLive(o)}

PricesOf(S) == {Pool[o].price : o \in S}
MaxOrNone(P) == IF P = {} THEN None ELSE CHOOSE p \in P : \A q \in P : p >= q
MinOrNone(P) == IF P = {} THEN None ELSE CHOOSE p \in P : \A q \in P : p <= q

\* o has priority over (or ties with) b among the bids / among the asks
BidPriority(o, b) ==
    \/ Pool[o].price > Pool[b].price
    \/ Pool[o].price = Pool[b].price /\ Pool[o].timestamp <= Pool[b].timestamp
AskPriority(o, b) ==
    \/ Pool[o].price < Pool[b].price
    \/ Pool[o].price = Pool[b].price /\ Pool[o].timestamp <= Pool[b].timestamp

(* -------------------------------- claims ------------------------------- *)

\* C1: whenever pop_best_bid_order() returns an order, that order has the
\* highest price, and among those the earliest timestamp, of all live bids
\* in the book at the moment of the call; symmetrically for
\* pop_best_ask_order() with the lowest price.  Stated for every run of
\* add_order, remove_order, get and pop calls.
C1_PriceTimePriority ==
    [][ /\ (result'.op = "pop_best_bid_order" /\ result'.ret # None)
           => \A b \in LiveInBook("BUY") : BidPriority(result'.ret, b)
        /\ (result'.op = "pop_best_ask_order" /\ result'.ret # None)
           => \A b \in LiveInBook("SELL") : AskPriority(result'.ret, b) ]_vars

\* C2: a get_best_bid() that returns gives the maximum price of the live
\* BUY orders in the lookup table, and None exactly when there is none; a
\* get_best_ask() that returns gives the minimum price of the live SELL
\* orders in the lookup table.
C2_BestPriceFromLookupTable ==
    /\ (result.op = "get_best_bid" /\ result.exc = "none")
       => result.ret = MaxOrNone(PricesOf(LiveInBook("BUY")))
    /\ (result.op = "get_best_ask" /\ result.exc = "none")
       => result.ret = MinOrNone(PricesOf(LiveInBook("SELL")))

\* C3: an order taken out by a successful remove_order and not admitted
\* again since is never returned by pop_best_*_order, and get_best_* never
\* returns a price that no order of that side in the lookup table carries.
C3_NoResurrection ==
    /\ (result.op \in {"pop_best_bid_order", "pop_best_ask_order"} /\ result.ret # None)
       => result.ret \notin removed
    /\ (result.op = "get_best_bid" /\ result.ret # None)
       => \E o \in Orders \ removed :
             Pool[o].side = "BUY" /\ InBook(o) /\ Pool[o].price = result.ret
    /\ (result.op = "get_best_ask" /\ result.ret # None)
       => \E o \in Orders \ removed :
             Pool[o].side = "SELL" /\ InBook(o) /\ Pool[o].price = result.ret

\* C4: once the status of an order is FILLED or CANCELLED, no fill or cancel
\* call gives it another value.
C4_TerminalStatus ==
    [][ \A o \in Orders :
          status[o] \in {"FILLED", "CANCELLED"} => status'[o] = status[o] ]_vars

\* C5 as stated: every order in the lookup table is OPEN or
\* PARTIALLY_FILLED after every operation, so get_order never returns a
\* FILLED or CANCELLED order.
C5_LookupOnlyLive ==
    /\ \A id \in OrderIds : InMap(orders_map, id) => IsLive(orders_map[id])
    /\ (result.op = "get_order" /\ result.ret # None) => IsLive(result.ret)

\* C5 amended: an order in the lookup table is FILLED or CANCELLED only
\* through an Order.fill / Order.cancel call made on it while it rests
\* there: no OrderBook operation enters a non-live order into the table or
\* changes the status of an order that stays in it.
C5_BookKeepsLookupLive ==
    [][ \A id \in OrderIds :
          (InMap(orders_map', id) /\ status'[orders_map'[id]] \notin LiveStatuses)
          => /\ orders_map[id] = orders_map'[id]
             /\ \/ status[orders_map[id]] \notin LiveStatuses
                \/ /\ result'.op \in {"fill", "cancel"}
                   /\ result'.order = orders_map[id] ]_vars

\* C5 witness: get_order returned an order of the lookup table that its
\* holder had cancelled or filled.
C5_Witness ==
    /\ result.op = "get_order"
    /\ result.ret # None
    /\ ~IsLive(result.ret)

\* C6: no heap holds an entry of a live order that is not the order the
\* lookup table holds under its order_id.
C6_QueueTableConsistency ==
    \A o \in HeapOrders(bids) \cup HeapOrders(asks) : IsLive(o) => InBook(o)

\* the admission of order o is to be rejected in the current state
Rejectable(o) ==
    \/ Pool[o].order_type = "MARKET"
    \/ Pool[o].symbol # BookSymbol
    \/ status[o] \notin LiveStatuses
    \/ InMap(orders_map, Pool[o].order_id) /\ ~InBook(o)

\* C7: an add_order of a MARKET order, of an order with another symbol, of
\* a non-live order or of an order whose order_id the lookup table holds
\* for another object leaves the lookup table and both heaps as they were
\* and does not return the order.
C7_RejectionLeavesBookUnchanged ==
    [][ (result'.op = "add_order" /\ Rejectable(result'.order))
        => /\ UNCHANGED <<orders_map, bids, asks>>
           /\ result'.ret # result'.order ]_vars

\* C7 witness: an order was rejected because the lookup table, which is
\* not empty, holds its order_id for another object.
C7_Witness ==
    /\ result.op = "add_order"
    /\ result.site = 150
    /\ InMap(orders_map, Pool[result.order].order_id)
    /\ ~InBook(result.order)

\* C8 as stated: an add_order of an order with another symbol ends like the
\* other rejections, by returning None without raising.
C8_SymbolMismatchReturned ==
    (result.op = "add_order" /\ Pool[result.order].symbol # BookSymbol)
    => (result.exc = "none" /\ result.ret = None)

\* C8 amended: an add_order of an order with another symbol raises
\* ValueError; a MARKET order, a non-live order and an order whose order_id
\* is held for another object (all of the book's symbol) return None
\* without raising.
C8_SymbolMismatchRaises ==
    result.op = "add_order" =>
       LET o == result.order IN
       /\ Pool[o].symbol # BookSymbol
          => (result.exc = "ValueError" /\ result.ret = None)
       /\ (/\ Pool[o].symbol = BookSymbol
           /\ \/ Pool[o].order_type = "MARKET"
              \/ status[o] \notin LiveStatuses
              \/ ~InBook(o))
          => (result.exc = "none" /\ result.ret = None)

\* C8 witness: add_order has raised ValueError on a book that holds orders.
C8_Witness ==
    /\ result.op = "add_order"
    /\ result.exc = "ValueError"
    /\ bids # <<>>

\* C9: add_order of the very object that is live in the lookup table
\* returns it, does not raise, and changes neither the lookup table nor a
\* heap (no second entry) nor the order.
C9_ReAddIdempotent ==
    [][ (/\ result'.op = "add_order"
         /\ InBook(result'.order)
         /\ IsLive(result'.order))
        => /\ result'.ret = result'.order
           /\ result'.exc = "none"
           /\ UNCHANGED <<orders_map, bids, asks, status, filled_quantity>> ]_vars

\* C9 witness: the re-add branch returned an order that rests in the book
\* with an entry in its heap.
C9_Witness ==
    /\ result.op = "add_order"
    /\ result.site = 146
    /\ result.ret = result.order
    /\ InBook(result.order)
    /\ result.order \in HeapOrders(bids) \cup HeapOrders(asks)

\* C10: after pop_best_bid_order() / pop_best_ask_order() has returned an
\* order, the order has no entry left in that heap and its order_id is not
\* in the lookup table.
C10_PopRemovesForGood ==
    /\ (result.op = "pop_best_bid_order" /\ result.ret # None)
       => /\ result.ret \notin HeapOrders(bids)
          /\ ~InMap(orders_map, Pool[result.ret].order_id)
    /\ (result.op = "pop_best_ask_order" /\ result.ret # None)
       => /\ result.ret \notin HeapOrders(asks)
          /\ ~InMap(orders_map, Pool[result.ret].order_id)

\* C11: the order a pop_best_*_order call returns, and the order at the
\* top of the heap whose price a get_best_* call returns, is OPEN or
\* PARTIALLY_FILLED at the time of the call (none of these calls changes a
\* status, so the status after the call is the status at the call): an
\* order that is CANCELLED or FILLED then is not served.
C11_OnlyLiveServed ==
    /\ (result.op \in {"pop_best_bid_order", "pop_best_ask_order"} /\ result.ret # None)
       => IsLive(result.ret)
    /\ (result.op = "get_best_bid" /\ result.ret # None)
       => /\ bids # <<>>
          /\ IsLive(At(bids, 0)[3])
          /\ Pool[At(bids, 0)[3]].price = result.ret
    /\ (result.op = "get_best_ask" /\ result.ret # None)
       => /\ asks # <<>>
          /\ IsLive(At(asks, 0)[3])
          /\ Pool[At(asks, 0)[3]].price = result.ret

\* C11 witness: pop_best_bid_order returned a bid although a bid with a
\* better price, cancelled by its holder while resting, is still in the
\* lookup table; its heap entry was in front and has been skipped.
C11_Witness ==
    /\ result.op = "pop_best_bid_order"
    /\ result.ret # None
    /\ \E o \in Orders :
          /\ Pool[o].side = "BUY"
          /\ InBook(o)
          /\ status[o] = "CANCELLED"
          /\ Pool[o].price > Pool[result.ret].price
          /\ o \notin HeapOrders(bids)

\* C12: a remove_order(id) call for an id the lookup table does not hold
\* returns None without raising and leaves the lookup table, both heaps
\* and the status and filled_quantity of every order as they were; and a
\* remove_order(id) call that comes right after a successful
\* remove_order(id) of the same id returns None.
C12_UnknownRemoveBenign ==
    [][ result'.op = "remove_order" =>
          \A id \in OrderIds :
             /\ (~InMap(orders_map, id) /\ RemoveOrder(id))
                => /\ result'.ret = None
                   /\ result'.exc = "none"
                   /\ UNCHANGED <<orders_map, bids, asks, status, filled_quantity>>
             /\ (/\ result.op = "remove_order"
                 /\ result.ret # None
                 /\ Pool[result.ret].order_id = id
                 /\ RemoveOrder(id))
                => /\ result'.ret = None
                   /\ result'.exc = "none" ]_vars

\* C12 witness: remove_order returned None for the order_id of an order
\* that an earlier remove_order took out and whose stale entry is still in
\* a heap.
C12_Witness ==
    /\ result.op = "remove_order"
    /\ result.ret = None
    /\ \E o \in removed :
          /\ ~InMap(orders_map, Pool[o].order_id)
          /\ o \in HeapOrders(bids) \cup HeapOrders(asks)

\* C13: a remove_order(id) call for an id the lookup table holds returns
\* the order held under id without raising, deletes that entry of the
\* lookup table and no other, sets the status of the order to CANCELLED
\* unless the order is fully filled or CANCELLED already, changes no other
\* status and no filled_quantity, and leaves both heaps as they were
\* (same entries at the same positions).
C13_RemoveEffectAndFrame ==
    [][ result'.op = "remove_order" =>
        \A id \in OrderIds :
          (InMap(orders_map, id) /\ RemoveOrder(id))
          => LET o == orders_map[id] IN
             /\ result'.ret = o
             /\ result'.exc = "none"
             /\ ~InMap(orders_map', id)
             /\ \A j \in OrderIds \ {id} : orders_map'[j] = orders_map[j]
             /\ status'[o] = IF is_filled(o, filled_quantity[o]) \/ status[o] = "CANCELLED"
                             THEN status[o] ELSE "CANCELLED"
             /\ \A p \in Orders \ {o} : status'[p] = status[p]
             /\ UNCHANGED <<filled_quantity, bids, asks>> ]_vars

\* C13 witness: remove_order returned an order and cancelled it; its entry
\* stays behind in a heap and the lookup table still holds another order.
C13_Witness ==
    /\ result.op = "remove_order"
    /\ result.ret # None
    /\ status[result.ret] = "CANCELLED"
    /\ ~InMap(orders_map, Pool[result.ret].order_id)
    /\ result.ret \in HeapOrders(bids) \cup HeapOrders(asks)
    /\ \E id \in OrderIds : InMap(orders_map, id)

\* C14: whatever integer fill is called with (zero, negative, larger than
\* the remaining quantity), the filled_quantity of no order decreases,
\* 0 <= filled_quantity <= quantity holds after the call, so
\* remaining_quantity is not negative, and a fill with more than the
\* remaining quantity fills exactly what remained.
C14_FillBounds ==
    [][ /\ \A o \in Orders :
             /\ filled_quantity'[o] >= filled_quantity[o]
             /\ 0 <= filled_quantity'[o]
             /\ filled_quantity'[o] <= Pool[o].quantity
             /\ remaining_quantity(o, filled_quantity'[o]) >= 0
        /\ result'.op = "fill" =>
             \A q \in MinFillArg..MaxFillArg :
                LET o == result'.order IN
                Fill(o, q) =>
                  /\ q > remaining_quantity(o, filled_quantity[o])
                     => remaining_quantity(o, filled_quantity'[o]) = 0
                  /\ q <= 0 => filled_quantity'[o] = filled_quantity[o] ]_vars

\* C14 witness: after two calls, the last of them a fill with a positive
\* amount, a two-unit order is filled to its quantity and not beyond,
\* and the other orders are as constructed.
C14_Witness ==
    /\ result.op = "fill"
    /\ result.site = 83
    /\ ndirect = 2
    /\ Pool[result.order].quantity = 2
    /\ status[result.order] = "FILLED"
    /\ filled_quantity[result.order] = 2
    /\ \A o \in Orders \ {result.order} : filled_quantity[o] = 0 /\ status[o] = "OPEN"

\* the sequences of at most MaxFillSeq positive fill amounts
FillSeqs == UNION {[1..n -> 1..MaxFillArg] : n \in 0..MaxFillSeq}

RECURSIVE SumOf(_)
SumOf(seq) == IF seq = <<>> THEN 0 ELSE Head(seq) + SumOf(Tail(seq))

\* fill(seq[1]); ...; fill(seq[n]) on order o in state (fq, st)
RECURSIVE fills(_, _, _, _)
fills(o, fq, st, seq) ==
    IF seq = <<>> THEN [filled_quantity |-> fq, status |-> st]
    ELSE LET f == fill(o, fq, st, Head(seq))
         IN fills(o, f.filled_quantity, f.status, Tail(seq))

\* C15, on an order as constructed: after fill calls with positive
\* amounts, if the amounts sum to the quantity or more then
\* remaining_quantity is exactly 0 and the status FILLED; if they leave
\* 0 < filled_quantity < quantity the status is PARTIALLY_FILLED (every
\* prefix is one of the sequences); and once is_filled holds a further
\* fill, with whatever amount, changes nothing.
C15_NewOrderFills ==
    \A o \in Orders, seq \in FillSeqs :
       LET r == fills(o, Pool[o].filled_quantity, Pool[o].status, seq) IN
       /\ SumOf(seq) >= Pool[o].quantity
          => /\ remaining_quantity(o, r.filled_quantity) = 0
             /\ r.status = "FILLED"
       /\ (0 < r.filled_quantity /\ r.filled_quantity < Pool[o].quantity)
          => r.status = "PARTIALLY_FILLED"
       /\ is_filled(o, r.filled_quantity)
          => \A q \in MinFillArg..MaxFillArg :
                fill(o, r.filled_quantity, r.status, q) = r

\* C15: the fill sequences of C15_NewOrderFills checked on the orders
\* before their first call, and the same three facts for every fill call
\* of a run: a positive fill of at least the remaining quantity gives
\* remaining_quantity 0 and FILLED, a positive fill that leaves
\* 0 < filled_quantity < quantity gives PARTIALLY_FILLED, and a fill on an
\* order for which is_filled holds changes neither filled_quantity nor
\* status.
C15_FillCompletion ==
    /\ [](ndirect = 0 => C15_NewOrderFills)
    /\ [][ result'.op = "fill" =>
             \A q \in MinFillArg..MaxFillArg :
                LET o == result'.order IN
                Fill(o, q) =>
                  /\ (q > 0 /\ q >= remaining_quantity(o, filled_quantity[o]))
                     => /\ remaining_quantity(o, filled_quantity'[o]) = 0
                        /\ status'[o] = "FILLED"
                  /\ (/\ q > 0
                      /\ 0 < filled_quantity'[o]
                      /\ filled_quantity'[o] < Pool[o].quantity)
                     => status'[o] = "PARTIALLY_FILLED"
                  /\ is_filled(o, filled_quantity[o])
                     => /\ filled_quantity'[o] = filled_quantity[o]
                        /\ status'[o] = status[o] ]_vars

\* C15 witness: the first call, a fill, has left a new two-unit order with
\* one unit filled and PARTIALLY_FILLED.
C15_Witness ==
    /\ ndirect = 1
    /\ result.op = "fill"
    /\ Pool[result.order].quantity = 2
    /\ filled_quantity[result.order] = 1
    /\ status[result.order] = "PARTIALLY_FILLED"

\* C16: cancel() on an order whose status is CANCELLED or FILLED changes
\* no status and no filled_quantity and does not raise; cancel() on an
\* OPEN or PARTIALLY_FILLED order sets its status to CANCELLED and leaves
\* its filled_quantity, and every other order, as they were; a cancel()
\* that follows a cancel() of the same order changes nothing.
C16_CancelIdempotent ==
    [][ result'.op = "cancel" =>
          LET o == result'.order IN
          Cancel(o) =>
            /\ result'.exc = "none"
            /\ filled_quantity' = filled_quantity
            /\ \A p \in Orders \ {o} : status'[p] = status[p]
            /\ status[o] \in {"CANCELLED", "FILLED"} => status'[o] = status[o]
            /\ status[o] \in LiveStatuses => status'[o] = "CANCELLED"
            /\ cancel(o, filled_quantity'[o], status'[o]) = status'[o]
            /\ (result.op = "cancel" /\ result.order = o) => status' = status ]_vars

\* C16 witness: a two-unit order with one unit filled has been cancelled
\* by the second call: CANCELLED, the filled unit kept.
C16_Witness ==
    /\ ndirect = 2
    /\ result.op = "cancel"
    /\ Pool[result.order].quantity = 2
    /\ filled_quantity[result.order] = 1
    /\ status[result.order] = "CANCELLED"

\* the arguments are among those Order(...) is to refuse
InvalidArguments(a) ==
    \/ a.side \notin {"BUY", "SELL"}
    \/ a.order_type \notin {"LIMIT", "MARKET"}
    \/ a.order_type = "LIMIT" /\ (a.price = None \/ a.price <= 0)
    \/ a.quantity <= 0
    \/ a.symbol = ""

\* C17: Order(...) raises ValueError exactly when side is not BUY / SELL,
\* order_type is not LIMIT / MARKET, order_type is LIMIT and the price is
\* absent or <= 0, the quantity is not positive, or the symbol is empty;
\* otherwise it builds an order with the given symbol, side, order_type
\* and quantity, status OPEN and filled_quantity 0, whose price is the
\* given one for a LIMIT order and absent for a MARKET order, so that the
\* price is present and > 0 if and only if the order is LIMIT.
C17_ConstructionValidation ==
    result.op = "Order" =>
       LET a == result.args
           r == result.ret
       IN /\ result.exc = "ValueError" <=> InvalidArguments(a)
          /\ result.exc \in {"ValueError", "none"}
          /\ ~InvalidArguments(a)
             => /\ r.ok
                /\ r.symbol = a.symbol
                /\ r.side = a.side
                /\ r.order_type = a.order_type
                /\ r.quantity = a.quantity
                /\ r.status = "OPEN"
                /\ r.filled_quantity = 0
                /\ a.order_type = "LIMIT" => r.price = a.price
                /\ a.order_type = "MARKET" => r.price = None
                /\ (r.price # None /\ r.price > 0) <=> r.order_type = "LIMIT"

\* C17 witness: a MARKET order was built from arguments with a price and
\* has no price.
C17_Witness ==
    /\ result.op = "Order"
    /\ result.args.order_type = "MARKET"
    /\ result.args.price > 0
    /\ result.exc = "none"
    /\ result.ret.price = None

\* the number of entries of order o in heap h
Entries(h, o) == Cardinality({i \in 1..Len(h) : h[i][3] = o})

\* order o satisfies every admission precondition of add_order
Admissible(o) ==
    /\ Pool[o].symbol = BookSymbol
    /\ Pool[o].order_type = "LIMIT"
    /\ IsLive(o)
    /\ ~InMap(orders_map, Pool[o].order_id)

\* C18: add_order of an order that satisfies every admission precondition
\* returns the order and does not raise, also when an order resting on the
\* same side has the same price and timestamp; after it the lookup table
\* holds the order and the order has exactly one heap entry, in the heap
\* of its side.
C18_AdmissionNeverFailsOnTie ==
    [][ \A o \in Orders :
          (AddOrder(o) /\ Admissible(o))
          => /\ result'.exc = "none"
             /\ result'.ret = o
             /\ orders_map'[Pool[o].order_id] = o
             /\ Entries(bids', o) = (IF Pool[o].side = "BUY" THEN 1 ELSE 0)
             /\ Entries(asks', o) = (IF Pool[o].side = "SELL" THEN 1 ELSE 0) ]_vars

\* C19: in every state, each order that the lookup table holds and that is
\* OPEN or PARTIALLY_FILLED has exactly one entry in the heap of its side
\* and none in the other heap, and no order has two entries in a heap.
C19_ExactlyOneEntry ==
    /\ \A o \in Orders :
          (InBook(o) /\ IsLive(o))
          => /\ Entries(bids, o) = (IF Pool[o].side = "BUY" THEN 1 ELSE 0)
             /\ Entries(asks, o) = (IF Pool[o].side = "SELL" THEN 1 ELSE 0)
    /\ \A o \in Orders : Entries(bids, o) <= 1 /\ Entries(asks, o) <= 1

\* what the caller sees of a call: the value returned and the exception
Seen(out) == <<out.ret, out.exc>>

\* what the callers see of each operation on the book called in the
\* current state (Order.fill and Order.cancel return nothing and never
\* raise)
Observations ==
    [add_order          |-> [o \in Orders |-> Seen(add_order(o))],
     remove_order       |-> [id \in OrderIds |-> Seen(remove_order(id))],
     get_order          |-> [id \in OrderIds |-> get_order(id)],
     get_best_bid       |-> Seen(get_best_bid),
     get_best_ask       |-> Seen(get_best_ask),
     pop_best_bid_order |-> Seen(pop_best_bid_order),
     pop_best_ask_order |-> Seen(pop_best_ask_order)]

\* C20, for the operation that comes next: a get_best_bid() or
\* get_best_ask() call that returns leaves the lookup table as it was, and
\* every operation called after it returns or raises what it would have
\* returned or raised had the get_best_* call been left out; in
\* particular a second get_best_* call returns the same value.
C20_GetBestReadOnly ==
    [][ (result'.op \in {"get_best_bid", "get_best_ask"} /\ result'.exc = "none")
        => /\ orders_map' = orders_map
           /\ Observations' = Observations
           /\ result'.op = "get_best_bid" => Seen(get_best_bid)' = <<result'.ret, "none">>
           /\ result'.op = "get_best_ask" => Seen(get_best_ask)' = <<result'.ret, "none">> ]_vars

\* C21: after every sequence of fill and cancel calls, for every order:
\* the status is one of the four; OPEN only with filled_quantity = 0;
\* PARTIALLY_FILLED only with 0 < filled_quantity < quantity; FILLED if
\* and only if filled_quantity = quantity, which is when is_filled holds;
\* CANCELLED only with filled_quantity < quantity.
C21_StatusQuantityConsistency ==
    \A o \in Orders :
       LET fq == filled_quantity[o] IN
       /\ status[o] \in {"OPEN", "PARTIALLY_FILLED", "FILLED", "CANCELLED"}
       /\ status[o] = "OPEN" => fq = 0
       /\ status[o] = "PARTIALLY_FILLED" => (0 < fq /\ fq < Pool[o].quantity)
       /\ status[o] = "FILLED" <=> fq = Pool[o].quantity
       /\ is_filled(o, fq) <=> fq = Pool[o].quantity
       /\ status[o] = "CANCELLED" => fq < Pool[o].quantity

\* C21 witness: fill and cancel calls have left one order CANCELLED with
\* a unit filled, one FILLED and one PARTIALLY_FILLED.
C21_Witness ==
    /\ result.op \in {"fill", "cancel"}
    /\ \E o \in Orders : status[o] = "CANCELLED" /\ filled_quantity[o] > 0
    /\ \E o \in Orders : status[o] = "FILLED"
    /\ \E o \in Orders : status[o] = "PARTIALLY_FILLED"

====
